---- MODULE Spec2Model ----
(***************************************************************************)
(* A model of the semantic-analysis core of the Zaitun bootstrap compiler: *)
(*   - TypeChecker   (src/compiler/bootstrap/src/types.rs)                 *)
(*   - OwnershipTracker (src/compiler/bootstrap/src/safety.rs)             *)
(*   - ExhaustivenessChecker (src/compiler/bootstrap/src/pattern_check.rs) *)
(*     and PatternMatcher (src/compiler/bootstrap/src/pattern.rs)          *)
(*   - CompileError::format_with_source                                    *)
(*     (src/compiler/bootstrap/src/error_handling.rs and error.rs)         *)
(* Every call is one action; `op` holds the last call with its arguments   *)
(* and `result` what it returned.                                          *)
(***************************************************************************)
EXTENDS Integers, Sequences, FiniteSets, TLC

VARIABLES
    class_hierarchy,            \* TypeChecker.class_hierarchy: parent name -> Vec of subclass names
    interface_implementations,  \* TypeChecker.interface_implementations: interface name -> Vec of class names
    registered,                 \* observer: the names add_class has been called with (the code keeps no such set)
    variables,                  \* OwnershipTracker.variables: name -> OwnershipState
    type_registry,              \* ExhaustivenessChecker.type_registry: enum name -> its variant names in order
    exhaustiveness_check,       \* PatternMatcher.exhaustiveness_check
    diagnostic,                 \* a CompileError: its span (<<>> for None, <<span>> for Some(span)), notes and help
    op,                         \* the last call and its arguments
    result                      \* what the last call returned

vars == <<class_hierarchy, interface_implementations, registered, variables,
          type_registry, exhaustiveness_check, diagnostic, op, result>>

patternVars == <<type_registry, exhaustiveness_check>>

typeVars == <<class_hierarchy, interface_implementations, registered>>

(***************************************************************************)
(* Bounds of the model.                                                    *)
(***************************************************************************)
ClassNames == {"Animal", "Dog", "Cat"}

InterfaceNames == {"Walker", "Pet"}

NoParent == "<none>"            \* parent: None

MaxChain == 3                   \* entries recorded where chains of three types are queried

MaxRegs == 2                    \* entries recorded in the two registries together

(***************************************************************************)
(* enum Type.  One record shape for every variant, so that the derived     *)
(* structural equality of the source is equality of records: k is the      *)
(* variant, n its name (Class, Interface, Struct, Enum, Generic), ts its   *)
(* component types in order (Function: the parameters, then the return     *)
(* type).                                                                  *)
(***************************************************************************)
Ty(k, n, ts) == [k |-> k, n |-> n, ts |-> ts]

TyVoid == Ty("Void", "", <<>>)

TyBool == Ty("Bool", "", <<>>)

TyInt == Ty("Int", "", <<>>)

TyFloat == Ty("Float", "", <<>>)

TyString == Ty("String", "", <<>>)

TyUnknown == Ty("Unknown", "", <<>>)

TyArray(t) == Ty("Array", "", <<t>>)

TyMap(kt, vt) == Ty("Map", "", <<kt, vt>>)

TyFunction(ps, r) == Ty("Function", "", ps \o <<r>>)

TyClass(n) == Ty("Class", n, <<>>)

TyInterface(n) == Ty("Interface", n, <<>>)

TyStruct(n) == Ty("Struct", n, <<>>)

TyEnum(n) == Ty("Enum", n, <<>>)

TyOptional(t) == Ty("Optional", "", <<t>>)

TyUnion(ts) == Ty("Union", "", ts)

TyGeneric(n, ts) == Ty("Generic", n, ts)

FnParams(t) == SubSeq(t.ts, 1, Len(t.ts) - 1)

FnReturn(t) == t.ts[Len(t.ts)]

(***************************************************************************)
(* Outcomes of a query.  is_subclass recurses through class_hierarchy with *)
(* no visited set, so on a cyclic hierarchy it can recurse for ever; the   *)
(* thread then overflows its stack and the process aborts.                 *)
(***************************************************************************)
StackOverflow == "stack_overflow"

\* A chain of nested is_subclass calls longer than the number of class names
\* repeats a call with the same arguments, and so never returns.
StackLimit == Cardinality(ClassNames)

contains(vec, x) == \E i \in 1..Len(vec) : vec[i] = x

RECURSIVE is_subclass(_, _, _)
RECURSIVE is_subclass_loop(_, _, _, _)

\* for subclass in subclasses { if self.is_subclass(sub, subclass) { return true; } }
is_subclass_loop(sub, subclasses, i, depth) ==
    IF i > Len(subclasses) THEN "false"
    ELSE LET r == is_subclass(sub, subclasses[i], depth + 1)
         IN  IF r = "false" THEN is_subclass_loop(sub, subclasses, i + 1, depth)
             ELSE r

is_subclass(sub, super, depth) ==
    IF depth > StackLimit THEN StackOverflow
    ELSE IF sub = super THEN "true"
    ELSE IF super \in DOMAIN class_hierarchy
         THEN IF contains(class_hierarchy[super], sub) THEN "true"
              ELSE is_subclass_loop(sub, class_hierarchy[super], 1, depth)
         ELSE "false"

RECURSIVE implements_loop(_, _, _)

\* for implementer in implementers { if self.is_subclass(class_name, implementer) { return true; } }
implements_loop(class_name, implementers, i) ==
    IF i > Len(implementers) THEN "false"
    ELSE LET r == is_subclass(class_name, implementers[i], 1)
         IN  IF r = "false" THEN implements_loop(class_name, implementers, i + 1)
             ELSE r

implements_interface(class_name, interface_name) ==
    IF interface_name \in DOMAIN interface_implementations
    THEN IF contains(interface_implementations[interface_name], class_name) THEN "true"
         ELSE implements_loop(class_name, interface_implementations[interface_name], 1)
    ELSE "false"

RECURSIVE is_subtype(_, _)
RECURSIVE params_loop(_, _, _)
RECURSIVE any_loop(_, _, _)
RECURSIVE all_loop(_, _, _)

\* for (super_param, sub_param) in super_params.iter().zip(sub_params.iter())
\*     { if !self.is_subtype(super_param, sub_param) { return false; } }
params_loop(super_params, sub_params, i) ==
    IF i > Len(super_params) THEN "true"
    ELSE LET r == is_subtype(super_params[i], sub_params[i])
         IN  IF r = "true" THEN params_loop(super_params, sub_params, i + 1)
             ELSE r

\* union_types.iter().any(|union_type| self.is_subtype(sub_type, union_type))
any_loop(sub_type, union_types, i) ==
    IF i > Len(union_types) THEN "false"
    ELSE LET r == is_subtype(sub_type, union_types[i])
         IN  IF r = "false" THEN any_loop(sub_type, union_types, i + 1)
             ELSE r

\* union_types.iter().all(|union_type| self.is_subtype(union_type, super_type))
all_loop(union_types, super_type, i) ==
    IF i > Len(union_types) THEN "true"
    ELSE LET r == is_subtype(union_types[i], super_type)
         IN  IF r = "true" THEN all_loop(union_types, super_type, i + 1)
             ELSE r

\* The Function arm with the parameters compared covariantly.
function_arm_covariant_params(sub, super) ==
    IF Len(FnParams(sub)) # Len(FnParams(super)) THEN "false"
    ELSE LET r == params_loop(FnParams(sub), FnParams(super), 1)
         IN  IF r = "true" THEN is_subtype(FnReturn(sub), FnReturn(super))
             ELSE r

\* The arm (Type::Function(..), Type::Function(..)).
function_arm(sub, super) ==
    IF Len(FnParams(sub)) # Len(FnParams(super)) THEN "false"
    ELSE LET r == params_loop(FnParams(super), FnParams(sub), 1)
         IN  IF r = "true" THEN is_subtype(FnReturn(sub), FnReturn(super))
             ELSE r

\* The match with the arm (_, Type::Optional(inner)) left out.
match_arms_without_optional(sub, super) ==
    IF sub.k = "Class" /\ super.k = "Class" THEN is_subclass(sub.n, super.n, 1)
    ELSE IF sub.k = "Class" /\ super.k = "Interface" THEN implements_interface(sub.n, super.n)
    ELSE IF sub.k = "Array" /\ super.k = "Array" THEN is_subtype(sub.ts[1], super.ts[1])
    ELSE IF sub.k = "Function" /\ super.k = "Function" THEN function_arm(sub, super)
    ELSE IF super.k = "Union" THEN any_loop(sub, super.ts, 1)
    ELSE IF sub.k = "Union" THEN all_loop(sub.ts, super, 1)
    ELSE "false"

\* The arms of the match, in the order of the source: the first arm whose
\* pattern matches is the one taken.
match_arms(sub, super) ==
    IF super.k = "Optional" THEN is_subtype(sub, super.ts[1])
    ELSE IF sub.k = "Class" /\ super.k = "Class" THEN is_subclass(sub.n, super.n, 1)
    ELSE IF sub.k = "Class" /\ super.k = "Interface" THEN implements_interface(sub.n, super.n)
    ELSE IF sub.k = "Array" /\ super.k = "Array" THEN is_subtype(sub.ts[1], super.ts[1])
    ELSE IF sub.k = "Function" /\ super.k = "Function" THEN function_arm(sub, super)
    ELSE IF super.k = "Union" THEN any_loop(sub, super.ts, 1)
    ELSE IF sub.k = "Union" THEN all_loop(sub.ts, super, 1)
    ELSE "false"

\* is_subtype without the test for equal types that comes before the match.
is_subtype_without_equality(sub, super) == match_arms(sub, super)

is_subtype(sub, super) ==
    IF sub = super THEN "true" ELSE match_arms(sub, super)

(***************************************************************************)
(* impl fmt::Display for Type, and check_assignment, which renders the two *)
(* types into the error it returns.                                        *)
(***************************************************************************)
RECURSIVE to_string(_)
RECURSIVE join(_, _, _)

\* the types of ts from the i-th on, rendered, with sep written before each
\* but the first
join(ts, sep, i) ==
    IF i > Len(ts) THEN ""
    ELSE (IF i > 1 THEN sep ELSE "") \o to_string(ts[i]) \o join(ts, sep, i + 1)

to_string(t) ==
    CASE t.k = "Void" -> "void"
      [] t.k = "Bool" -> "bool"
      [] t.k = "Int" -> "int"
      [] t.k = "Float" -> "float"
      [] t.k = "String" -> "string"
      [] t.k = "Array" -> to_string(t.ts[1]) \o "[]"
      [] t.k = "Map" -> "Map<" \o to_string(t.ts[1]) \o ", " \o to_string(t.ts[2]) \o ">"
      [] t.k = "Function" ->
            "function(" \o join(FnParams(t), ", ", 1) \o "): " \o to_string(FnReturn(t))
      [] t.k \in {"Class", "Interface", "Struct", "Enum"} -> t.n
      [] t.k = "Optional" -> to_string(t.ts[1]) \o "?"
      [] t.k = "Union" -> join(t.ts, " | ", 1)
      [] t.k = "Generic" -> t.n \o "<" \o join(t.ts, ", ", 1) \o ">"
      [] t.k = "Unknown" -> "unknown"

\* Result<(), TypeError>; a call that dies of stack overflow returns nothing
Ok == [tag |-> "Ok", from |-> "", to |-> ""]

IncompatibleTypes(from, to) == [tag |-> "IncompatibleTypes", from |-> from, to |-> to]

Aborted == [tag |-> StackOverflow, from |-> "", to |-> ""]

\* check_assignment asking whether the target is a subtype of the value.
check_assignment_target_as_sub(target_type, value_type) ==
    LET r == is_subtype(target_type, value_type)
    IN  IF r = "true" THEN Ok
        ELSE IF r = "false"
        THEN IncompatibleTypes(to_string(value_type), to_string(target_type))
        ELSE Aborted

check_assignment(target_type, value_type) ==
    LET r == is_subtype(value_type, target_type)
    IN  IF r = "true" THEN Ok
        ELSE IF r = "false"
        THEN IncompatibleTypes(to_string(value_type), to_string(target_type))
        ELSE Aborted

(***************************************************************************)
(* The registration calls.  Both return () and cannot fail.                *)
(***************************************************************************)
Recorded(map) ==
    LET RECURSIVE Sum(_)
        Sum(S) == IF S = {} THEN 0
                  ELSE LET k == CHOOSE k \in S : TRUE
                       IN  Len(map[k]) + Sum(S \ {k})
    IN  Sum(DOMAIN map)

\* self.<map>.entry(key).or_insert_with(Vec::new).push(value)
entry_push(map, key, value) ==
    IF key \in DOMAIN map
    THEN [map EXCEPT ![key] = Append(@, value)]
    ELSE (key :> <<value>>) @@ map

add_class(name, parent) ==
    /\ class_hierarchy' = IF parent # NoParent
                          THEN entry_push(class_hierarchy, parent, name)
                          ELSE class_hierarchy
    /\ op' = [fn |-> "add_class", name |-> name, parent |-> parent]
    /\ result' = "unit"
    /\ UNCHANGED <<interface_implementations, variables, patternVars, diagnostic>>

add_interface_implementation(class_name, interface_name) ==
    /\ interface_implementations' =
           entry_push(interface_implementations, interface_name, class_name)
    /\ op' = [fn |-> "add_interface_implementation",
              class_name |-> class_name, interface_name |-> interface_name]
    /\ result' = "unit"
    /\ UNCHANGED <<class_hierarchy, variables, patternVars, diagnostic>>

RegistryFull == Recorded(class_hierarchy) + Recorded(interface_implementations) >= MaxRegs

AddClass ==
    \E name \in ClassNames, parent \in ClassNames \cup {NoParent} :
        /\ parent # NoParent => ~RegistryFull
        /\ add_class(name, parent)
        /\ UNCHANGED registered

AddInterfaceImplementation ==
    \E class_name \in ClassNames, interface_name \in InterfaceNames :
        /\ ~RegistryFull
        /\ add_interface_implementation(class_name, interface_name)
        /\ UNCHANGED registered

\* The same call, with the observer noting the name it was made with.
AddClassObserved ==
    \E name \in ClassNames, parent \in ClassNames \cup {NoParent} :
        /\ parent # NoParent => ~RegistryFull
        /\ add_class(name, parent)
        /\ registered' = registered \cup {name}

\* A query: is_subtype(sub, super) on the registry as it stands.
IsSubtype(Universe) ==
    \E sub \in Universe, super \in Universe :
        /\ op' = [fn |-> "is_subtype", sub |-> sub, super |-> super]
        /\ result' = is_subtype(sub, super)
        /\ UNCHANGED <<typeVars, variables, patternVars, diagnostic>>

\* A call check_assignment(target_type, value_type) on the registry as it stands.
CheckAssignment(Universe) ==
    \E target_type \in Universe, value_type \in Universe :
        /\ op' = [fn |-> "check_assignment", target |-> target_type, value |-> value_type]
        /\ result' = check_assignment(target_type, value_type)
        /\ UNCHANGED <<typeVars, variables, patternVars, diagnostic>>

\* Three queries on the registry as it stands: is_subtype(a, b),
\* is_subtype(b, c) and is_subtype(a, c).
IsSubtypeChain(Universe) ==
    \E a \in Universe, b \in Universe, c \in Universe :
        /\ op' = [fn |-> "is_subtype_chain", a |-> a, b |-> b, c |-> c]
        /\ result' = [ab |-> is_subtype(a, b), bc |-> is_subtype(b, c),
                      ac |-> is_subtype(a, c)]
        /\ UNCHANGED <<typeVars, variables, patternVars, diagnostic>>

\* The registration calls, up to MaxChain entries recorded.
ChainFull == Recorded(class_hierarchy) + Recorded(interface_implementations) >= MaxChain

AddClassChain ==
    \E name \in ClassNames, parent \in ClassNames \cup {NoParent} :
        /\ parent # NoParent => ~ChainFull
        /\ add_class(name, parent)
        /\ UNCHANGED registered

AddInterfaceImplementationChain ==
    \E class_name \in ClassNames, interface_name \in InterfaceNames :
        /\ ~ChainFull
        /\ add_interface_implementation(class_name, interface_name)
        /\ UNCHANGED registered

(***************************************************************************)
(* The types the queries are drawn from.                                   *)
(***************************************************************************)
Animal == TyClass("Animal")

Dog == TyClass("Dog")

Cat == TyClass("Cat")

NominalTypes ==
    {TyClass(c) : c \in ClassNames} \cup {TyInterface(i) : i \in InterfaceNames}
        \cup {TyInt, TyStruct("Animal")}

FunctionTypes ==
    {TyFunction(<<>>, r) : r \in {Animal, Dog}}
        \cup {TyFunction(<<p>>, r) : p \in {Animal, Dog}, r \in {Animal, Dog}}
        \cup {TyFunction(<<TyInt>>, TyInt), TyFunction(<<TyInt>>, Dog)}
        \cup {TyFunction(<<Dog, Animal>>, Dog), TyFunction(<<Animal, Dog>>, Dog)}

UnionTypes ==
    {TyInt, TyString, Dog, Animal}
        \cup {TyUnion(<<TyInt, TyString>>), TyUnion(<<TyString, TyInt>>),
              TyUnion(<<TyInt, TyString, TyBool>>), TyUnion(<<TyInt, TyBool>>),
              TyUnion(<<Dog, TyInt>>), TyUnion(<<Dog, Animal>>), TyUnion(<<Animal, Dog>>)}

Ghost == TyClass("Ghost")

U_IntOrString == TyUnion(<<TyInt, TyString>>)

\* one type of each kind the match of is_subtype has no arm for, and more
ReflexiveTypes ==
    {TyUnknown, TyMap(TyString, TyInt), TyGeneric("List", <<TyInt>>),
     TyStruct("Point"), TyEnum("Color"), Ghost, Dog, U_IntOrString,
     TyFunction(<<Dog>>, Dog)}

OptionalBases == {TyInt, Dog, Animal, U_IntOrString, TyOptional(TyInt)}

OptionalTypes == OptionalBases \cup {TyOptional(t) : t \in OptionalBases}

AssignTypes ==
    {Dog, Animal, TyOptional(Animal), TyMap(TyString, TyFloat),
     TyGeneric("Pair", <<TyInt, Dog>>), TyUnion(<<TyBool, TyArray(Dog)>>),
     TyFunction(<<Dog, Animal>>, Dog)}

ChainTypes == {Dog, Animal, Cat, TyInterface("Walker")}

Init ==
    /\ class_hierarchy = <<>>
    /\ interface_implementations = <<>>
    /\ registered = {}
    /\ variables = <<>>
    /\ type_registry = <<>>
    /\ exhaustiveness_check = TRUE
    /\ diagnostic = [span |-> <<>>, notes |-> <<>>, help |-> "None"]
    /\ op = [fn |-> "new"]
    /\ result = "unit"

\* Registrations alone, observed.
RegistryNext == AddClassObserved \/ AddInterfaceImplementation

RegistrySpec == Init /\ [][RegistryNext]_vars

\* Registrations and queries between classes and interfaces.
NominalNext == AddClass \/ AddInterfaceImplementation \/ IsSubtype(NominalTypes)

NominalSpec == Init /\ [][NominalNext]_vars

\* Registrations and queries between function types.
FunctionNext == AddClass \/ AddInterfaceImplementation \/ IsSubtype(FunctionTypes)

FunctionSpec == Init /\ [][FunctionNext]_vars

\* Registrations and queries between union types and their members.
UnionNext == AddClass \/ AddInterfaceImplementation \/ IsSubtype(UnionTypes)

UnionSpec == Init /\ [][UnionNext]_vars

\* Registrations and queries with a type on both sides.
ReflexiveNext == AddClass \/ AddInterfaceImplementation \/ IsSubtype(ReflexiveTypes)

ReflexiveSpec == Init /\ [][ReflexiveNext]_vars

\* Registrations and queries between types and their optional wrappers.
OptionalNext == AddClass \/ AddInterfaceImplementation \/ IsSubtype(OptionalTypes)

OptionalSpec == Init /\ [][OptionalNext]_vars

\* Registrations and assignment checks.
AssignNext == AddClass \/ AddInterfaceImplementation \/ CheckAssignment(AssignTypes)

AssignSpec == Init /\ [][AssignNext]_vars

\* Registrations and chains of queries between classes and an interface.
ChainNext == AddClassChain \/ AddInterfaceImplementationChain \/ IsSubtypeChain(ChainTypes)

ChainSpec == Init /\ [][ChainNext]_vars

(***************************************************************************)
(* What the claims speak of.                                               *)
(***************************************************************************)
IsQuery(k1, k2) == op.fn = "is_subtype" /\ op.sub.k = k1 /\ op.super.k = k2

Returned(r) == r \in {"true", "false"}

\* a is recorded as a direct subclass of b
DirectSubclass(a, b) == b \in DOMAIN class_hierarchy /\ contains(class_hierarchy[b], a)

\* the classes reachable from those of S by following parent links up to n times
RECURSIVE Up(_, _)
Up(S, n) ==
    IF n = 0 THEN S
    ELSE Up(S \cup {p \in ClassNames : \E c \in S : DirectSubclass(c, p)}, n - 1)

Ancestors(a) ==
    Up({p \in ClassNames : DirectSubclass(a, p)}, Cardinality(ClassNames))

Acyclic == \A c \in ClassNames : c \notin Ancestors(c)

Implements(c, i) ==
    i \in DOMAIN interface_implementations /\ contains(interface_implementations[i], c)

AsResult(b) == IF b THEN "true" ELSE "false"

U_IntString == TyUnion(<<TyInt, TyString>>)

U_IntStringBool == TyUnion(<<TyInt, TyString, TyBool>>)

U_IntBool == TyUnion(<<TyInt, TyBool>>)

\* C1: when sub and super are different Union types, is_subtype(sub, super) is
\* true iff every member of sub is a subtype of super (the sub-is-union rule
\* comes first); is_subtype(Union([Int,String]), Union([Int,String,Bool])) and
\* is_subtype(Int, Union([Int,String])) are true, is_subtype(Union([Int,Bool]), Int)
\* is false.
C1_UnionSubRuleFirst ==
    /\ (IsQuery("Union", "Union") /\ op.sub # op.super)
          => (result = "true"
                 <=> \A i \in 1..Len(op.sub.ts) : is_subtype(op.sub.ts[i], op.super) = "true")
    /\ (op.fn = "is_subtype" /\ op.sub = U_IntString /\ op.super = U_IntStringBool)
          => result = "true"
    /\ (op.fn = "is_subtype" /\ op.sub = TyInt /\ op.super = U_IntString)
          => result = "true"
    /\ (op.fn = "is_subtype" /\ op.sub = U_IntBool /\ op.super = TyInt)
          => result = "false"

F_AnimalDog == TyFunction(<<Animal>>, Dog)

F_DogAnimal == TyFunction(<<Dog>>, Animal)

ParamsHold(sub, super) ==
    \A i \in 1..Len(FnParams(sub)) :
        is_subtype(FnParams(super)[i], FnParams(sub)[i]) = "true"

ComponentsReturn(sub, super) ==
    /\ \A i \in 1..Len(FnParams(sub)) :
           Returned(is_subtype(FnParams(super)[i], FnParams(sub)[i]))
    /\ Returned(is_subtype(FnReturn(sub), FnReturn(super)))

\* C2: between Function types of equal arity is_subtype is true iff every
\* parameter of super is a subtype of the parameter of sub at its position and
\* the return type of sub is a subtype of that of super; Function types of
\* different arity are not subtypes.  In the hierarchy that holds Dog as a
\* subclass of Animal, Function([Animal], Dog) is a subtype of
\* Function([Dog], Animal) and not the other way round.
C2_FunctionVariance ==
    /\ IsQuery("Function", "Function") =>
          IF Len(FnParams(op.sub)) # Len(FnParams(op.super))
          THEN result = "false"
          ELSE /\ result = "true"
                     <=> /\ ParamsHold(op.sub, op.super)
                         /\ is_subtype(FnReturn(op.sub), FnReturn(op.super)) = "true"
               /\ ComponentsReturn(op.sub, op.super) => Returned(result)
    /\ (op.fn = "is_subtype" /\ op.sub = F_AnimalDog /\ op.super = F_DogAnimal
            /\ DirectSubclass("Dog", "Animal"))
          => result = "true"
    /\ (op.fn = "is_subtype" /\ op.sub = F_DogAnimal /\ op.super = F_AnimalDog
            /\ class_hierarchy = ("Animal" :> <<"Dog">>))
          => result = "false"

C2_Witness ==
    /\ op.fn = "is_subtype" /\ op.sub = F_AnimalDog /\ op.super = F_DogAnimal
    /\ class_hierarchy = ("Animal" :> <<"Dog">>)
    /\ result = "true"

\* C3: is_subtype(Class(a), Class(b)) is true iff a = b or b is a transitive
\* ancestor of a, after any sequence of add_class calls.
C3_ClassIffAncestor ==
    IsQuery("Class", "Class")
        => result = AsResult(op.sub.n = op.super.n \/ op.super.n \in Ancestors(op.sub.n))

\* C4: is_subtype(Class(c), Interface(i)) is true iff c or a transitive
\* ancestor of c was registered as implementing i.
C4_InterfaceIffAncestorImplements ==
    IsQuery("Class", "Interface")
        => result = AsResult(\E d \in {op.sub.n} \cup Ancestors(op.sub.n) :
                                 Implements(d, op.super.n))

ErrorKinds == {"Name", "Reference", "Internal"}

\* the registration add_class(name, parent) would close a cycle
WouldCycle(name, parent) ==
    parent # NoParent /\ (parent = name \/ name \in Ancestors(parent))

\* C5: add_class(name, parent) fails with a Name error when name is already
\* registered, with a Reference error when parent is named but not registered,
\* with an Internal error when it would introduce a cycle; a failed call leaves
\* the hierarchy as it was.
C5_AddClassRejects ==
    [][op'.fn = "add_class" =>
          LET name == op'.name
              parent == op'.parent
          IN  /\ name \in registered => result' = "Name"
              /\ (name \notin registered /\ parent # NoParent /\ parent \notin registered)
                    => result' = "Reference"
              /\ (name \notin registered /\ parent \in registered /\ WouldCycle(name, parent))
                    => result' = "Internal"
              /\ result' \in ErrorKinds => class_hierarchy' = class_hierarchy
      ]_vars

\* C6: add_interface_implementation(class, interface) succeeds only when class
\* was registered with add_class before; otherwise it fails with a Reference
\* error and records no relation.
C6_ImplementationNeedsClass ==
    [][op'.fn = "add_interface_implementation" =>
          (op'.class_name \notin registered
              => /\ result' = "Reference"
                 /\ interface_implementations' = interface_implementations)
      ]_vars

(***************************************************************************)
(* OwnershipTracker.  An OwnershipState is a record: k the variant, count  *)
(* the number carried by Borrowed (0 for the other variants).              *)
(***************************************************************************)
Names == {"x", "y", "z"}

MaxBorrows == 2                 \* shared borrows of one binding at a time

Owned == [k |-> "Owned", count |-> 0]

Moved == [k |-> "Moved", count |-> 0]

Borrowed(count) == [k |-> "Borrowed", count |-> count]

MutBorrowed == [k |-> "MutBorrowed", count |-> 0]

\* self.variables.insert(name, state)
insert(map, name, state) ==
    IF name \in DOMAIN map THEN [map EXCEPT ![name] = state] ELSE (name :> state) @@ map

\* the variant self.variables.get(name) matches
get(name) == IF name \in DOMAIN variables THEN variables[name].k ELSE "None"

Call(fn, name) == [fn |-> fn, name |-> name]

Returns(r) == result' = r /\ UNCHANGED variables

\* declare that declares again: a registered name is reset to Owned.
declare_again(name) ==
    /\ op' = Call("declare", name)
    /\ variables' = insert(variables, name, Owned)
    /\ result' = "Ok"
    /\ UNCHANGED <<typeVars, patternVars, diagnostic>>

declare(name) ==
    /\ op' = Call("declare", name)
    /\ IF name \in DOMAIN variables
       THEN Returns("AlreadyDeclared")
       ELSE variables' = insert(variables, name, Owned) /\ result' = "Ok"
    /\ UNCHANGED <<typeVars, patternVars, diagnostic>>

\* move_ownership that marks the source Moved before it looks at its state.
move_ownership_marks_first(from, to) ==
    /\ op' = [fn |-> "move_ownership", from |-> from, to |-> to]
    /\ IF get(from) = "Owned"
       THEN /\ variables' = insert(insert(variables, from, Moved), to, Owned)
            /\ result' = "Ok"
       ELSE IF get(from) = "Moved" THEN Returns("UseAfterMove")
       ELSE IF get(from) \in {"Borrowed", "MutBorrowed"}
       THEN variables' = insert(variables, from, Moved) /\ result' = "MoveWhileBorrowed"
       ELSE Returns("Undeclared")
    /\ UNCHANGED <<typeVars, patternVars, diagnostic>>

\* move_ownership that lets a borrowed source be moved.
move_ownership_ignores_borrows(from, to) ==
    /\ op' = [fn |-> "move_ownership", from |-> from, to |-> to]
    /\ IF get(from) \in {"Owned", "Borrowed", "MutBorrowed"}
       THEN /\ variables' = insert(insert(variables, from, Moved), to, Owned)
            /\ result' = "Ok"
       ELSE IF get(from) = "Moved" THEN Returns("UseAfterMove")
       ELSE Returns("Undeclared")
    /\ UNCHANGED <<typeVars, patternVars, diagnostic>>

move_ownership(from, to) ==
    /\ op' = [fn |-> "move_ownership", from |-> from, to |-> to]
    /\ IF get(from) = "Owned"
       THEN /\ variables' = insert(insert(variables, from, Moved), to, Owned)
            /\ result' = "Ok"
       ELSE IF get(from) = "Moved" THEN Returns("UseAfterMove")
       ELSE IF get(from) = "Borrowed" THEN Returns("MoveWhileBorrowed")
       ELSE IF get(from) = "MutBorrowed" THEN Returns("MoveWhileBorrowed")
       ELSE Returns("Undeclared")
    /\ UNCHANGED <<typeVars, patternVars, diagnostic>>

\* borrow that takes a moved binding back into use.
borrow_after_move(name) ==
    /\ op' = Call("borrow", name)
    /\ IF get(name) \in {"Owned", "Moved"}
       THEN variables' = insert(variables, name, Borrowed(1)) /\ result' = "Ok"
       ELSE IF get(name) = "Borrowed"
       THEN /\ variables' = insert(variables, name, Borrowed(variables[name].count + 1))
            /\ result' = "Ok"
       ELSE IF get(name) = "MutBorrowed" THEN Returns("BorrowWhileMutBorrowed")
       ELSE Returns("Undeclared")
    /\ UNCHANGED <<typeVars, patternVars, diagnostic>>

\* borrow that does not count: every shared borrow leaves Borrowed(1).
borrow_forgets_count(name) ==
    /\ op' = Call("borrow", name)
    /\ IF get(name) \in {"Owned", "Borrowed"}
       THEN variables' = insert(variables, name, Borrowed(1)) /\ result' = "Ok"
       ELSE IF get(name) = "Moved" THEN Returns("UseAfterMove")
       ELSE IF get(name) = "MutBorrowed" THEN Returns("BorrowWhileMutBorrowed")
       ELSE Returns("Undeclared")
    /\ UNCHANGED <<typeVars, patternVars, diagnostic>>

borrow(name) ==
    /\ op' = Call("borrow", name)
    /\ IF get(name) = "Owned"
       THEN variables' = insert(variables, name, Borrowed(1)) /\ result' = "Ok"
       ELSE IF get(name) = "Borrowed"
       THEN /\ variables' = insert(variables, name, Borrowed(variables[name].count + 1))
            /\ result' = "Ok"
       ELSE IF get(name) = "Moved" THEN Returns("UseAfterMove")
       ELSE IF get(name) = "MutBorrowed" THEN Returns("BorrowWhileMutBorrowed")
       ELSE Returns("Undeclared")
    /\ UNCHANGED <<typeVars, patternVars, diagnostic>>

\* borrow_mut that declares the name it is given when it is not registered.
borrow_mut_declares(name) ==
    /\ op' = Call("borrow_mut", name)
    /\ IF get(name) \in {"Owned", "None"}
       THEN variables' = insert(variables, name, MutBorrowed) /\ result' = "Ok"
       ELSE IF get(name) = "Borrowed" THEN Returns("MutBorrowWhileBorrowed")
       ELSE IF get(name) = "Moved" THEN Returns("UseAfterMove")
       ELSE Returns("MutBorrowWhileMutBorrowed")
    /\ UNCHANGED <<typeVars, patternVars, diagnostic>>

\* borrow_mut that grants the mutable borrow over shared borrows.
borrow_mut_over_shared(name) ==
    /\ op' = Call("borrow_mut", name)
    /\ IF get(name) \in {"Owned", "Borrowed"}
       THEN variables' = insert(variables, name, MutBorrowed) /\ result' = "Ok"
       ELSE IF get(name) = "Moved" THEN Returns("UseAfterMove")
       ELSE IF get(name) = "MutBorrowed" THEN Returns("MutBorrowWhileMutBorrowed")
       ELSE Returns("Undeclared")
    /\ UNCHANGED <<typeVars, patternVars, diagnostic>>

borrow_mut(name) ==
    /\ op' = Call("borrow_mut", name)
    /\ IF get(name) = "Owned"
       THEN variables' = insert(variables, name, MutBorrowed) /\ result' = "Ok"
       ELSE IF get(name) = "Borrowed" THEN Returns("MutBorrowWhileBorrowed")
       ELSE IF get(name) = "Moved" THEN Returns("UseAfterMove")
       ELSE IF get(name) = "MutBorrowed" THEN Returns("MutBorrowWhileMutBorrowed")
       ELSE Returns("Undeclared")
    /\ UNCHANGED <<typeVars, patternVars, diagnostic>>

\* release_borrow without the arm for Borrowed(1): the last release leaves Borrowed(0).
release_borrow_to_zero(name) ==
    /\ op' = Call("release_borrow", name)
    /\ IF get(name) = "Borrowed"
       THEN /\ variables' = insert(variables, name, Borrowed(variables[name].count - 1))
            /\ result' = "Ok"
       ELSE IF get(name) = "MutBorrowed"
       THEN variables' = insert(variables, name, Owned) /\ result' = "Ok"
       ELSE IF get(name) = "Owned" THEN Returns("ReleaseUnborrowed")
       ELSE IF get(name) = "Moved" THEN Returns("UseAfterMove")
       ELSE Returns("Undeclared")
    /\ UNCHANGED <<typeVars, patternVars, diagnostic>>

\* release_borrow that gives the binding back whole on any release.
release_borrow_releases_all(name) ==
    /\ op' = Call("release_borrow", name)
    /\ IF get(name) \in {"Borrowed", "MutBorrowed"}
       THEN variables' = insert(variables, name, Owned) /\ result' = "Ok"
       ELSE IF get(name) = "Owned" THEN Returns("ReleaseUnborrowed")
       ELSE IF get(name) = "Moved" THEN Returns("UseAfterMove")
       ELSE Returns("Undeclared")
    /\ UNCHANGED <<typeVars, patternVars, diagnostic>>

release_borrow(name) ==
    /\ op' = Call("release_borrow", name)
    /\ IF get(name) = "Borrowed" /\ variables[name].count = 1
       THEN variables' = insert(variables, name, Owned) /\ result' = "Ok"
       ELSE IF get(name) = "Borrowed"
       THEN /\ variables' = insert(variables, name, Borrowed(variables[name].count - 1))
            /\ result' = "Ok"
       ELSE IF get(name) = "MutBorrowed"
       THEN variables' = insert(variables, name, Owned) /\ result' = "Ok"
       ELSE IF get(name) = "Owned" THEN Returns("ReleaseUnborrowed")
       ELSE IF get(name) = "Moved" THEN Returns("UseAfterMove")
       ELSE Returns("Undeclared")
    /\ UNCHANGED <<typeVars, patternVars, diagnostic>>

Declare == \E name \in Names : declare(name)

MoveOwnership == \E from \in Names, to \in Names : move_ownership(from, to)

\* The count is a usize; the model stops counting at MaxBorrows.
Borrow ==
    \E name \in Names :
        /\ get(name) = "Borrowed" => variables[name].count < MaxBorrows
        /\ borrow(name)

BorrowMut == \E name \in Names : borrow_mut(name)

ReleaseBorrow == \E name \in Names : release_borrow(name)

OwnershipNext == Declare \/ MoveOwnership \/ Borrow \/ BorrowMut \/ ReleaseBorrow

OwnershipSpec == Init /\ [][OwnershipNext]_vars

\* C7 as stated: for every from and to, move_ownership(from, to) succeeds iff
\* from is Owned, and then leaves from Moved and to Owned; it fails with
\* UseAfterMove from Moved, with MoveWhileBorrowed from Borrowed(n) or MutBorrowed.
C7_MoveLeavesSourceMoved ==
    [][op'.fn = "move_ownership" =>
          /\ result' = "Ok" <=> get(op'.from) = "Owned"
          /\ result' = "Ok" => variables'[op'.from] = Moved /\ variables'[op'.to] = Owned
          /\ get(op'.from) = "Moved" => result' = "UseAfterMove"
          /\ get(op'.from) \in {"Borrowed", "MutBorrowed"} => result' = "MoveWhileBorrowed"
      ]_vars

\* C7 amended: move_ownership(from, to) succeeds iff from is Owned; after a
\* successful call to is Owned, and from is Moved when from and to are two
\* names (when they are one name the binding stays Owned); it fails with
\* UseAfterMove from Moved, with MoveWhileBorrowed from Borrowed(n) or MutBorrowed.
C7_MoveOwnership ==
    [][op'.fn = "move_ownership" =>
          /\ result' = "Ok" <=> get(op'.from) = "Owned"
          /\ result' = "Ok" =>
                /\ variables'[op'.to] = Owned
                /\ op'.from # op'.to => variables'[op'.from] = Moved
                /\ \A n \in Names \ {op'.from, op'.to} : get(n)' = get(n)
          /\ get(op'.from) = "Moved" => result' = "UseAfterMove"
          /\ get(op'.from) \in {"Borrowed", "MutBorrowed"} => result' = "MoveWhileBorrowed"
      ]_vars

C7_Witness ==
    /\ op.fn = "move_ownership" /\ result = "Ok" /\ op.from # op.to
    /\ variables[op.from] = Moved /\ variables[op.to] = Owned

\* C8: borrow_mut(name) succeeds iff name is Owned, and name is then
\* MutBorrowed; it fails with MutBorrowWhileBorrowed from Borrowed(n), with
\* MutBorrowWhileMutBorrowed from MutBorrowed, with UseAfterMove from Moved: a
\* mutable borrow is never granted while another borrow is outstanding.
C8_BorrowMutExclusive ==
    [][op'.fn = "borrow_mut" =>
          /\ result' = "Ok" <=> get(op'.name) = "Owned"
          /\ result' = "Ok" => variables'[op'.name] = MutBorrowed
          /\ (get(op'.name) = "Borrowed" /\ variables[op'.name].count >= 1)
                => result' = "MutBorrowWhileBorrowed" /\ variables' = variables
          /\ get(op'.name) = "MutBorrowed"
                => result' = "MutBorrowWhileMutBorrowed" /\ variables' = variables
          /\ get(op'.name) = "Moved" => result' = "UseAfterMove"
      ]_vars

C8_Witness ==
    /\ op.fn = "borrow_mut" /\ result = "MutBorrowWhileBorrowed"
    /\ variables[op.name] = Borrowed(2)

\* C9: borrow(name) succeeds iff name is Owned or Borrowed(n), taking Owned
\* to Borrowed(1) and Borrowed(n) to Borrowed(n+1); it fails with
\* BorrowWhileMutBorrowed from MutBorrowed and with UseAfterMove from Moved.
C9_BorrowCounts ==
    [][op'.fn = "borrow" =>
          /\ result' = "Ok" <=> get(op'.name) \in {"Owned", "Borrowed"}
          /\ get(op'.name) = "Owned" => variables'[op'.name] = Borrowed(1)
          /\ get(op'.name) = "Borrowed"
                => variables'[op'.name] = Borrowed(variables[op'.name].count + 1)
          /\ get(op'.name) = "MutBorrowed" => result' = "BorrowWhileMutBorrowed"
          /\ get(op'.name) = "Moved" => result' = "UseAfterMove"
      ]_vars

C9_Witness ==
    op.fn = "borrow" /\ result = "Ok" /\ variables[op.name] = Borrowed(2)

\* C10: release_borrow(name) takes Borrowed(1) to Owned, Borrowed(n) with
\* n > 1 to Borrowed(n-1) and MutBorrowed to Owned; it fails with
\* ReleaseUnborrowed from Owned and with UseAfterMove from Moved.
C10_ReleaseBorrow ==
    [][op'.fn = "release_borrow" =>
          LET name == op'.name
          IN  /\ (get(name) = "Borrowed" /\ variables[name].count = 1)
                    => result' = "Ok" /\ variables'[name] = Owned
              /\ (get(name) = "Borrowed" /\ variables[name].count > 1)
                    => result' = "Ok"
                       /\ variables'[name] = Borrowed(variables[name].count - 1)
              /\ get(name) = "MutBorrowed" => result' = "Ok" /\ variables'[name] = Owned
              /\ get(name) = "Owned"
                    => result' = "ReleaseUnborrowed" /\ variables' = variables
              /\ get(name) = "Moved" => result' = "UseAfterMove" /\ variables' = variables
      ]_vars

C10_Witness ==
    /\ op.fn = "release_borrow" /\ result = "Ok" /\ variables[op.name] = Borrowed(1)

Succeeds(fn, name) == op'.fn = fn /\ op'.name = name /\ result' = "Ok"

\* C11: from Owned, n >= 1 successful borrow(y) calls leave y Borrowed(n);
\* while y is Borrowed every borrow_mut(y) fails with MutBorrowWhileBorrowed,
\* and y stays Borrowed, its count changed by nothing but borrow(y) and
\* release_borrow(y), until exactly n release_borrow(y) calls have succeeded;
\* y is then Owned and borrow_mut(y) succeeds.
C11_MutBorrowWaitsForReleases ==
    [][\A y \in Names :
          /\ get(y) = "Owned" =>
                /\ Succeeds("borrow", y) => variables'[y] = Borrowed(1)
                /\ (op'.fn = "borrow_mut" /\ op'.name = y)
                      => result' = "Ok" /\ variables'[y] = MutBorrowed
          /\ get(y) = "Borrowed" =>
                LET n == variables[y].count
                IN  /\ (op'.fn = "borrow_mut" /\ op'.name = y)
                          => result' = "MutBorrowWhileBorrowed"
                    /\ variables'[y] =
                          IF Succeeds("borrow", y) THEN Borrowed(n + 1)
                          ELSE IF Succeeds("release_borrow", y)
                          THEN (IF n = 1 THEN Owned ELSE Borrowed(n - 1))
                          ELSE variables[y]
      ]_vars

\* C12: declare(name) registers an unregistered name as Owned; on a registered
\* name, whatever its state, it fails with AlreadyDeclared and leaves the
\* state of the binding as it was.
C12_Declare ==
    [][op'.fn = "declare" =>
          IF op'.name \notin DOMAIN variables
          THEN result' = "Ok" /\ variables' = (op'.name :> Owned) @@ variables
          ELSE result' = "AlreadyDeclared" /\ variables'[op'.name] = variables[op'.name]
      ]_vars

C12_Witness ==
    op.fn = "declare" /\ result = "AlreadyDeclared" /\ variables[op.name] = Borrowed(1)

\* the binding a call works on: from for move_ownership, name for the others
Subject(call) == IF call.fn = "move_ownership" THEN call.from ELSE call.name

\* C13: move_ownership, borrow, borrow_mut and release_borrow fail with
\* Undeclared when the binding they work on is not registered, and such a
\* call registers no binding.
C13_Undeclared ==
    [][(/\ op'.fn \in {"move_ownership", "borrow", "borrow_mut", "release_borrow"}
        /\ Subject(op') \notin DOMAIN variables)
          => result' = "Undeclared" /\ DOMAIN variables' = DOMAIN variables
      ]_vars

C13_Witness ==
    /\ op.fn = "move_ownership" /\ result = "Undeclared"
    /\ op.from \notin DOMAIN variables /\ op.to \notin DOMAIN variables
    /\ variables # <<>>

\* C17: is_subtype(t, t) is true for every type t in every state of the
\* registry, cyclic hierarchies included: Unknown, Map, Generic, Struct and
\* Enum types and classes never registered are subtypes of themselves.
C17_Reflexive ==
    (op.fn = "is_subtype" /\ op.sub = op.super) => result = "true"

C17_Witness ==
    /\ op.fn = "is_subtype" /\ op.sub = Dog /\ op.super = Dog /\ result = "true"
    /\ DirectSubclass("Dog", "Dog")

\* C18: is_subtype(t, Optional(t)) is true and is_subtype(Optional(t), t) is
\* false; for sub other than Optional(inner), is_subtype(sub, Optional(inner))
\* is what is_subtype(sub, inner) is (so a class is a subtype of the optional
\* of each of its ancestors, and of no other class's optional).
C18_Optional ==
    op.fn = "is_subtype" =>
        /\ op.super = TyOptional(op.sub) => result = "true"
        /\ op.sub = TyOptional(op.super) => result = "false"
        /\ (op.super.k = "Optional" /\ op.sub # op.super)
              => result = is_subtype(op.sub, op.super.ts[1])
        /\ (Acyclic /\ op.sub.k = "Class" /\ op.super.k = "Optional"
                /\ op.super.ts[1].k = "Class" /\ op.sub # op.super.ts[1])
              => result = AsResult(op.super.ts[1].n \in Ancestors(op.sub.n))
        /\ (op.sub = TyInt /\ op.super = TyOptional(TyOptional(TyInt))) => result = "true"
        /\ (op.sub = TyInt /\ op.super = TyOptional(Dog)) => result = "false"

C18_Witness ==
    /\ op.fn = "is_subtype" /\ op.sub = Dog /\ op.super = TyOptional(Animal)
    /\ DirectSubclass("Dog", "Animal") /\ result = "true"

MaxArms == 2

\* sub: the subpatterns of an EnumVariant; the other patterns have none
Wildcard == [k |-> "Wildcard", name |-> "_", irrefutable |-> TRUE, sub |-> <<>>]

Literal == [k |-> "Literal", name |-> "0", irrefutable |-> FALSE, sub |-> <<>>]

Binding(name, irrefutable) ==
    [k |-> "Binding", name |-> name, irrefutable |-> irrefutable, sub |-> <<>>]

EnumVariant(name, subpatterns) ==
    [k |-> "EnumVariant", name |-> name, irrefutable |-> FALSE, sub |-> subpatterns]

Color == <<"Red", "Green", "Blue">>

\* an enum of one variant that carries a value
Shape == <<"Circle">>

Patterns ==
    {EnumVariant("Red", <<>>), EnumVariant("Green", <<>>),
     EnumVariant("Circle", <<Literal>>), Wildcard, Literal,
     Binding("v", TRUE), Binding("v", FALSE)}

ScrutineeTypes == {TyEnum("Color"), TyEnum("Shape"), TyInt, TyStruct("Point")}

Spans == {"main.zt:1:1", "main.zt:7:5"}

MatchExpr(scrutinee_type, arms, span) ==
    [scrutinee_type |-> scrutinee_type, arms |-> arms, span |-> span]

MatchExprs ==
    {MatchExpr(t, arms, span) :
        t \in ScrutineeTypes,
        arms \in UNION {[1..n -> Patterns] : n \in 0..MaxArms},
        span \in Spans}

Range(seq) == {seq[i] : i \in DOMAIN seq}

\* the orders in which the elements of a HashSet can come out of an iterator
Orders(S) ==
    {seq \in [1..Cardinality(S) -> S] : Range(seq) = S}

get_enum(name) ==
    IF name \in DOMAIN type_registry THEN type_registry[name] ELSE "None"

has_wildcard_pattern(match_expr) ==
    \E i \in DOMAIN match_expr.arms :
        \/ match_expr.arms[i].k = "Wildcard"
        \/ match_expr.arms[i].k = "Binding" /\ match_expr.arms[i].irrefutable

\* CompileError::new(message, span), the message being the text and the
\* Debug form of `missing`; the call names no ErrorKind
NotExhaustive(text, missing, span) ==
    [message |-> text, missing |-> missing, span |-> span]

\* ExhaustivenessChecker::check
check(match_expr) ==
    /\ op' = [fn |-> "check", match_expr |-> match_expr]
    /\ IF match_expr.scrutinee_type.k = "Enum"
          /\ get_enum(match_expr.scrutinee_type.n) # "None"
       THEN LET enum_def == get_enum(match_expr.scrutinee_type.n)
                covered_variants ==
                    {match_expr.arms[i].name :
                        i \in {j \in DOMAIN match_expr.arms :
                                  match_expr.arms[j].k = "EnumVariant"}}
                all_variants == Range(enum_def)
                difference == all_variants \ covered_variants
            IN  IF difference # {} /\ ~has_wildcard_pattern(match_expr)
                THEN \E missing \in Orders(difference) :
                        result' = <<NotExhaustive("Match is not exhaustive, missing variants: ",
                                                  missing, match_expr.span)>>
                ELSE result' = <<>>
       ELSE result' = <<>>
    /\ UNCHANGED <<typeVars, variables, patternVars, diagnostic>>

\* PatternMatcher::is_exhaustive
is_exhaustive(patterns, expr_type) == TRUE

\* PatternMatcher::check_match; it reads the arms and the scrutinee type of
\* the match as match_expr.patterns and match_expr.expr_type
check_match(match_expr) ==
    /\ op' = [fn |-> "check_match", match_expr |-> match_expr]
    /\ IF exhaustiveness_check
          /\ ~is_exhaustive(match_expr.arms, match_expr.scrutinee_type)
       THEN result' = <<NotExhaustive("Match expression is not exhaustive",
                                      <<>>, match_expr.span)>>
       ELSE result' = <<>>
    /\ UNCHANGED <<typeVars, variables, patternVars, diagnostic>>

Check == \E match_expr \in MatchExprs : check(match_expr)

CheckMatch == \E match_expr \in MatchExprs : check_match(match_expr)

\* ExhaustivenessChecker::new(type_registry) and PatternMatcher::new(flag)
PatternInit ==
    /\ class_hierarchy = <<>>
    /\ interface_implementations = <<>>
    /\ registered = {}
    /\ variables = <<>>
    /\ type_registry \in {<<>>, [Color |-> Color], [Color |-> Color, Shape |-> Shape]}
    /\ exhaustiveness_check \in BOOLEAN
    /\ diagnostic = [span |-> <<>>, notes |-> <<>>, help |-> "None"]
    /\ op = [fn |-> "new"]
    /\ result = "unit"

PatternNext == Check \/ CheckMatch

PatternSpec == PatternInit /\ [][PatternNext]_vars

IsCheck == op.fn = "check"

Scrutinee == op.match_expr.scrutinee_type

Covered ==
    {p.name : p \in {q \in Range(op.match_expr.arms) : q.k = "EnumVariant"}}

Missing == Range(type_registry[Scrutinee.n]) \ Covered

\* the place of a variant name in the order of strings
Rank == [Blue |-> 1, Green |-> 2, Red |-> 3]

Sorted(names) ==
    \A i, j \in DOMAIN names : i < j => Rank[names[i]] < Rank[names[j]]

\* C14: for a scrutinee of a registered enum type, check emits exactly one
\* diagnostic, spanning the whole match and naming exactly the variants that
\* no EnumVariant arm covers, in sorted order, iff some variant is not covered
\* and no arm is a Wildcard or an irrefutable Binding; otherwise it emits
\* none.  (The kind of the diagnostic is not stated here: the call in the
\* source names none.)
C14_EnumDiagnostic ==
    (IsCheck /\ Scrutinee.k = "Enum" /\ Scrutinee.n \in DOMAIN type_registry) =>
        IF Missing # {} /\ ~has_wildcard_pattern(op.match_expr)
        THEN /\ Len(result) = 1
             /\ result[1].span = op.match_expr.span
             /\ Range(result[1].missing) = Missing
             /\ Len(result[1].missing) = Cardinality(Missing)
             /\ Sorted(result[1].missing)
        ELSE result = <<>>

\* C15: for a scrutinee of an Enum type whose name is not in the type
\* registry, check reports an error; it never accepts the match silently.
C15_UnregisteredEnum ==
    (IsCheck /\ Scrutinee.k = "Enum" /\ Scrutinee.n \notin DOMAIN type_registry)
        => result # <<>>

\* C16: for a scrutinee of a type that is not an enum, the exhaustiveness
\* check (ExhaustivenessChecker::check, and PatternMatcher::check_match with
\* the check switched on) reports a diagnostic unless some arm is a Wildcard
\* or an irrefutable Binding.
C16_NonEnumerableNeedsWildcard ==
    (/\ op.fn \in {"check", "check_match"}
     /\ op.fn = "check_match" => exhaustiveness_check
     /\ Scrutinee.k # "Enum"
     /\ ~has_wildcard_pattern(op.match_expr))
        => result # <<>>

(***************************************************************************)
(* Diagnostics: CompileError and its format_with_source, as written in     *)
(* error_handling.rs and as written in error.rs.  A source text is the     *)
(* sequence of the lengths of its lines; lines and columns count from 1.   *)
(* usize arithmetic: a subtraction that would go below zero panics in a    *)
(* build with overflow checks and wraps around in a build without; a       *)
(* negative number v stands for the wrapped value 2^64 + v.                *)
(***************************************************************************)
MaxLine == 2

MaxColumn == 3

MaxNotes == 1

SourceLocation(line, column) == [line |-> line, column |-> column]

Span(start, end) == [start |-> start, end |-> end]

Spans1 ==
    {Span(SourceLocation(l1, c1), SourceLocation(l2, c2)) :
        l1 \in 1..MaxLine, c1 \in 1..MaxColumn, l2 \in 1..MaxLine, c2 \in 1..MaxColumn}

\* the spans the builder is given: they end on the line they start on or on a later one
SpanValues == {sp \in Spans1 : sp.end.line >= sp.start.line}

\* source texts of n lines of len bytes each
SourceCodes ==
    {[i \in 1..n |-> len] : n \in 0..MaxLine, len \in 0..MaxColumn}

with_span(span) ==
    /\ diagnostic' = [diagnostic EXCEPT !.span = <<span>>]
    /\ op' = [fn |-> "with_span"]
    /\ result' = "self"
    /\ UNCHANGED <<typeVars, variables, patternVars>>

with_note(note) ==
    /\ diagnostic' = [diagnostic EXCEPT !.notes = Append(@, note)]
    /\ op' = [fn |-> "with_note"]
    /\ result' = "self"
    /\ UNCHANGED <<typeVars, variables, patternVars>>

with_help(help) ==
    /\ diagnostic' = [diagnostic EXCEPT !.help = help]
    /\ op' = [fn |-> "with_help"]
    /\ result' = "self"
    /\ UNCHANGED <<typeVars, variables, patternVars>>

usize(v) == [panic |-> FALSE, v |-> v]

usize_sub(a, b, overflow_checks) ==
    IF a >= b THEN usize(a - b)
    ELSE IF overflow_checks THEN [panic |-> TRUE, v |-> 0]
    ELSE usize(a - b)

\* x + 1 for x the outcome of a subtraction: the wrapped value 2^64 - 1 wraps on to 0
usize_succ(x) == IF x.panic THEN x ELSE usize(x.v + 1)

usize_max(x, n) == IF x.panic \/ x.v < 0 \/ x.v >= n THEN x ELSE usize(n)

\* let length = if span.end.line == span.start.line { .. } else { .. }
caret_length(span, line_len, overflow_checks) ==
    IF span.end.line = span.start.line
    THEN usize_sub(span.end.column, span.start.column, overflow_checks)
    ELSE usize_succ(usize_sub(line_len, span.start.column, overflow_checks))

Line(tag, n, m) == [tag |-> tag, n |-> n, m |-> m]

Returned1(out) == [status |-> "returned", out |-> out]

\* the lines written for the span: the arrow, and when the text has the line
\* the span starts on, the bar, the line and the caret line; `carets` is the
\* number the loop over 0..carets is given
span_lines(span, source_code, carets) ==
    <<Line("-->", span.start.line, span.start.column)>>
        \o (IF span.start.line \in DOMAIN source_code
            THEN <<Line("|", 0, 0),
                   Line("source", span.start.line, source_code[span.start.line]),
                   Line("caret", span.start.column - 1, carets.v)>>
            ELSE <<>>)

note_lines(label, notes) == [i \in DOMAIN notes |-> Line(label, i, 0)]

\* the span starts on a line the text has: the caret line is written
has_line(span, source_code) ==
    span # <<>> /\ span[1].start.line \in DOMAIN source_code

\* what the call comes to: a panic on the subtraction, no end of the loop
\* that pushes 2^64 + v carets, or the text
outcome(span, source_code, carets, out) ==
    IF has_line(span, source_code) /\ carets.panic
    THEN [status |-> "panic", out |-> <<>>]
    ELSE IF has_line(span, source_code) /\ carets.v < 0
    THEN [status |-> "out_of_memory", out |-> <<>>]
    ELSE Returned1(out)

\* error_handling.rs: the carets number length.max(1)
format_with_source(self, source_code, overflow_checks) ==
    LET carets == IF has_line(self.span, source_code)
                  THEN usize_max(caret_length(self.span[1],
                                              source_code[self.span[1].start.line],
                                              overflow_checks), 1)
                  ELSE usize(0)
    IN  outcome(self.span, source_code, carets,
                <<Line("kind: message", 0, 0)>>
                    \o (IF self.span # <<>>
                        THEN span_lines(self.span[1], source_code, carets) ELSE <<>>)
                    \o note_lines("note", self.notes)
                    \o (IF self.help # "None" THEN <<Line("help", 0, 0)>> ELSE <<>>))

\* error.rs: the carets number length; this CompileError has no help
format_with_source_error_rs(self, source_code, overflow_checks) ==
    LET carets == IF has_line(self.span, source_code)
                  THEN caret_length(self.span[1], source_code[self.span[1].start.line],
                                    overflow_checks)
                  ELSE usize(0)
    IN  outcome(self.span, source_code, carets,
                <<Line("Error: message", 0, 0)>>
                    \o (IF self.span # <<>>
                        THEN span_lines(self.span[1], source_code, carets) ELSE <<>>)
                    \o note_lines("Note", self.notes))

WithSpan == \E span \in SpanValues : with_span(span)

WithNote == Len(diagnostic.notes) < MaxNotes /\ with_note("n")

WithHelp == with_help("h")

FormatWithSource ==
    \E source_code \in SourceCodes, overflow_checks \in BOOLEAN,
       file \in {"error_handling.rs", "error.rs"} :
        /\ op' = [fn |-> "format_with_source", file |-> file,
                  source_code |-> source_code, overflow_checks |-> overflow_checks]
        /\ result' = IF file = "error_handling.rs"
                     THEN format_with_source(diagnostic, source_code, overflow_checks)
                     ELSE format_with_source_error_rs(diagnostic, source_code, overflow_checks)
        /\ UNCHANGED <<typeVars, variables, patternVars, diagnostic>>

DiagnosticNext == WithSpan \/ WithNote \/ WithHelp \/ FormatWithSource

DiagnosticSpec == Init /\ [][DiagnosticNext]_vars

\* the call rendered a diagnostic whose span starts on a line the text has
RendersSpan ==
    op.fn = "format_with_source" /\ has_line(diagnostic.span, op.source_code)

CaretLines == {i \in DOMAIN result.out : result.out[i].tag = "caret"}

Max(a, b) == IF a >= b THEN a ELSE b

CaretsClaimed ==
    LET span == diagnostic.span[1]
    IN  IF span.end.line = span.start.line
        THEN Max(span.end.column - span.start.column, 1)
        ELSE op.source_code[span.start.line] - span.start.column + 1

\* C20: format_with_source renders the caret line as start.column - 1 spaces
\* followed by carets numbering max(end.column - start.column, 1) when the
\* span starts and ends on one line, and the length of the source line
\* - start.column + 1 when the span crosses lines.
C20_CaretLine ==
    RendersSpan =>
        /\ result.status = "returned"
        /\ \E i \in CaretLines :
              /\ CaretLines = {i}
              /\ result.out[i].n = diagnostic.span[1].start.column - 1
              /\ result.out[i].m = CaretsClaimed

\* the number of times class c is recorded as a subclass, under any parent
TimesRecorded(c) ==
    Cardinality(UNION {{<<p, i>> : i \in {j \in DOMAIN class_hierarchy[p] :
                                             class_hierarchy[p][j] = c}} :
                       p \in DOMAIN class_hierarchy})

NoDuplicates == \A c \in ClassNames : TimesRecorded(c) <= 1

\* C21: after any sequence of add_class calls the class hierarchy is acyclic
\* (no class is its own transitive ancestor) and holds no class twice (no
\* class is recorded under a parent more than once, nor under two parents).
C21_HierarchyWellFormed ==
    op.fn = "add_class" => Acyclic /\ NoDuplicates

\* C22: in every registry state and for every pair of types is_subtype
\* terminates: it returns a boolean or reports an Internal error for a
\* recursion bound exceeded; it never recurses without bound.
C22_IsSubtypeTerminates ==
    op.fn = "is_subtype" => result \in {"true", "false", "Internal"}

\* C23: for a union sub and a type super other than sub, whatever the kind
\* of super, is_subtype(sub, super) is true iff is_subtype(m, super) is true
\* for every member m of sub.
C23_UnionSubIffEveryMember ==
    (op.fn = "is_subtype" /\ op.sub.k = "Union" /\ op.sub # op.super) =>
        (result = "true"
            <=> \A i \in DOMAIN op.sub.ts : is_subtype(op.sub.ts[i], op.super) = "true")

\* C24: a successful move_ownership never drops a destination that has
\* outstanding borrows silently: when the destination is Borrowed(n) or
\* MutBorrowed and the source is Owned, the call reports an Internal error
\* and does not reset the destination to Owned.
C24_NoDropWhileBorrowed ==
    [][(/\ op'.fn = "move_ownership"
        /\ get(op'.from) = "Owned"
        /\ get(op'.to) \in {"Borrowed", "MutBorrowed"})
          => result' = "Internal" /\ variables'[op'.to] = variables[op'.to]
      ]_vars

TrackerCalls == {"declare", "move_ownership", "borrow", "borrow_mut", "release_borrow"}

\* C25: a call of the tracker that fails, with whatever error, leaves the
\* whole binding table as it was: the same names, each in the same state.
C25_FailureChangesNothing ==
    [][(op'.fn \in TrackerCalls /\ result' # "Ok") => variables' = variables]_vars

C25_Witness ==
    /\ op.fn = "move_ownership" /\ result = "MoveWhileBorrowed"
    /\ variables[op.from] = Borrowed(2)
    /\ op.to \notin DOMAIN variables

\* C26: every registered binding is Owned, Moved, Borrowed(count) or
\* MutBorrowed, and every Borrowed carries a count of 1 or more: Borrowed(0)
\* is never reached.
C26_BorrowedCountsPositive ==
    \A name \in DOMAIN variables :
        /\ variables[name].k \in {"Owned", "Moved", "Borrowed", "MutBorrowed"}
        /\ variables[name].k = "Borrowed" => variables[name].count >= 1
        /\ variables[name].k # "Borrowed" => variables[name].count = 0

C26_Witness ==
    /\ op.fn = "release_borrow" /\ result = "Ok"
    /\ variables[op.name] = Borrowed(1)
    /\ \E other \in DOMAIN variables : variables[other] = Owned

\* C30: once a binding is Moved, move_ownership from it, borrow, borrow_mut
\* and release_borrow on it fail with UseAfterMove and declare on it fails
\* with AlreadyDeclared; it stays Moved unless a successful move_ownership
\* names it as the destination, which makes it Owned; and no call removes a
\* name from the binding table.
C30_MovedUntilDestination ==
    [][/\ DOMAIN variables \subseteq DOMAIN variables'
       /\ \A y \in Names : get(y) = "Moved" =>
             /\ (op'.fn = "move_ownership" /\ op'.from = y) => result' = "UseAfterMove"
             /\ (op'.fn \in {"borrow", "borrow_mut", "release_borrow"} /\ op'.name = y)
                   => result' = "UseAfterMove"
             /\ (op'.fn = "declare" /\ op'.name = y) => result' = "AlreadyDeclared"
             /\ variables'[y] =
                   IF op'.fn = "move_ownership" /\ op'.to = y /\ result' = "Ok"
                   THEN Owned ELSE Moved
      ]_vars

C30_Witness ==
    /\ op.fn = "borrow" /\ result = "UseAfterMove"
    /\ variables[op.name] = Moved

\* C27: format_with_source never aborts: for every diagnostic with a span of
\* lines and columns counted from 1 and for every source text, a span that
\* ends at or before the column it starts at, a start column beyond the end
\* of the line and a start line beyond the end of the text included, it
\* returns the rendered text.
C27_FormatReturns ==
    op.fn = "format_with_source" => result.status = "returned"

\* C28: is_subtype is transitive: in every registry state, for all types a,
\* b and c, is_subtype(a, b) and is_subtype(b, c) both true imply
\* is_subtype(a, c) true.
C28_Transitive ==
    op.fn = "is_subtype_chain" =>
        ((result.ab = "true" /\ result.bc = "true") => result.ac = "true")

\* the pattern matches every value it is given
Irrefutable(p) == p.k = "Wildcard" \/ (p.k = "Binding" /\ p.irrefutable)

\* some arm matches every value of the variant
VariantCovered(variant) ==
    \E i \in DOMAIN op.match_expr.arms :
        LET p == op.match_expr.arms[i]
        IN  \/ Irrefutable(p)
            \/ /\ p.k = "EnumVariant" /\ p.name = variant
               /\ \A j \in DOMAIN p.sub : Irrefutable(p.sub[j])

\* C29: when check emits no diagnostic for a scrutinee of a registered enum
\* type, every declared variant of the enum has an arm that matches all its
\* values: a Wildcard, an irrefutable Binding, or an EnumVariant arm for the
\* variant whose subpatterns are all irrefutable.
C29_CoverageSound ==
    (IsCheck /\ Scrutinee.k = "Enum" /\ Scrutinee.n \in DOMAIN type_registry
        /\ result = <<>>)
        => \A variant \in Range(type_registry[Scrutinee.n]) : VariantCovered(variant)

====
